---- MODULE Spec2Model ----
(***************************************************************************)
(* EndUID: the batch check-in scheduler (end_sign/__init__.py,             *)
(* end_sign/sign_handler.py), its persisted Batch-Run State file           *)
(* (end_sign/sign_state.py) and the Sign-in Record store                   *)
(* (utils/database/models.py, EndSignRecord).                              *)
(*                                                                         *)
(* Every coroutine is cut at its awaits: one action is the code that runs  *)
(* between two suspension points of the single asyncio event loop.         *)
(* The file system performs the writes and unlinks it is asked to perform; *)
(* awaited collaborators (database, HTTP, message sending) may raise.      *)
(***************************************************************************)
EXTENDS Integers, Sequences, FiniteSets

VARIABLES
    stateFile,      \* signing_state.json: NoFile, Corrupt or a JSON object
    now,            \* datetime.now(), in seconds
    concurrent_num, \* EndConfig "SigninConcurrentNum"
    users,          \* EndUser table, in get_all_data() order
    signRecord,     \* EndSignRecord rows of today with sign_status = 1 (their uids)
    h,              \* the handler coroutines: sign_all, end_scheduled_sign, resume
    out,            \* what the last step put out: a message, a request, a log line
    rt,             \* one stand-alone do_sign_in_with_result call (SpecRetry)
    row,            \* the EndUser row of one credential (SpecApi)
    calls,          \* the calls of the signed client that are under way (SpecApi)
    net,            \* what the signed client did last: a request sent, a return
    issued,         \* tokens the refresh endpoint has issued for the credential
    lastRefresh,    \* current_time of the latest refresh_token call that refreshed
    merge,          \* one _merge_records call (SpecMerge)
    sig,            \* one request being built by EndApi.request (SpecSign)
    store           \* the EndSignRecord table by date, and its writers (SpecStore)

vars == <<stateFile, now, concurrent_num, users, signRecord, h, out, rt,
          row, calls, net, issued, lastRefresh, merge, sig, store>>

SchedVars == <<stateFile, concurrent_num, users, signRecord, h, out, rt>>
ApiVars == <<row, calls, net, issued, lastRefresh>>
AuxVars == <<merge, sig, store>>

(***************************** bounds **************************************)
MaxManual == 1          \* sign_all commands that can be running at once
NUsers == 1             \* rows of the EndUser table in Spec (the triggers)
NUsersRun == 3          \* rows of the EndUser table in SpecRun (one run at a time)
NUids == 2              \* distinct game UIDs in SpecRun
MaxConcurrent == 2      \* largest configured SigninConcurrentNum
MaxN == 3               \* largest max_retries tried in SpecRetry
NCalls == 2             \* calls of the signed client under way at once
MaxIssued == 2          \* tokens the refresh endpoint issues in SpecApi
MaxSeqId == 3           \* largest seqId of a gacha record in SpecMerge
MaxOld == 2             \* longest stored gacha list in SpecMerge
MaxNew == 3             \* longest fetched gacha list in SpecMerge
MaxKeys == 3            \* keys of the params dict in SpecSign
NMarks == 2             \* mark_signed calls under way at once in SpecStore
MaxDay == 4             \* last day of SpecStore (it starts on day FirstDay)
FirstDay == 3           \* first day of SpecStore
NUsersCmd == 2          \* rows of the EndUser table in SpecCmd
NCreds == 2             \* credentials a user binds one after the other

(************************ program constants ********************************)
DAY == 86400            \* should_resume: elapsed > 86400
DefaultMaxRetries == 3  \* do_sign_in_with_result(max_retries = 3)
DefaultConcurrentNum == 1   \* config_default.py, "SigninConcurrentNum"
CODE_OK == 0
CODE_SIGNED == 10001
TOKEN_TTL == 180        \* refresh_token: current_time - last_cred_request_time > 180
TOKEN_INVALID == 220    \* RespCode.TOKEN_INVALID
TWO_DAYS == 2           \* clear_end_sign_record: timedelta(days=2)

(* signing_state.json is absent, holds a JSON object, or holds something    *)
(* json.load rejects (a write cut short by a crash)                        *)
NoFile == [kind |-> "absent", type |-> "", start_time |-> 0]
Corrupt == [kind |-> "corrupt", type |-> "", start_time |-> 0]
None == [kind |-> "None", type |-> "", start_time |-> 0]
(* a JSON object whose start_time is missing or not a date: strptime raises *)
BadTime == [kind |-> "json_bad_time", type |-> "manual", start_time |-> 0]
SignTypes == {"auto", "manual"}

ManualH == 1..MaxManual
CronH == MaxManual + 1
ResumeH == MaxManual + 2
Handlers == 1..(MaxManual + 2)

UserIds == DOMAIN users

(* What one end_api.attendance call can give back to its caller: None, an  *)
(* exception, or a dict with a code (0, 10001, or any other code, here     *)
(* RespCode.REQUEST_ERROR).                                                *)
REQUEST_ERROR == 10000
Codes == {CODE_OK, CODE_SIGNED, REQUEST_ERROR}
Responses ==
    {[kind |-> "None", code |-> -1], [kind |-> "Raise", code |-> -1]}
        \cup {[kind |-> "dict", code |-> c] : c \in Codes}

(************************* SigningState ************************************)
MutIsSigningNever == FALSE
is_signing == stateFile # NoFile

get_state == IF stateFile.kind \in {"json", "json_bad_time"} THEN stateFile ELSE None

set_state(sign_type) == [kind |-> "json", type |-> sign_type, start_time |-> now]

clear_state == NoFile

MutStaleAtGE(elapsed) == elapsed >= DAY
IsStale(elapsed) == elapsed > DAY

(* should_resume: <<result, file afterwards>> *)
should_resume ==
    IF ~is_signing THEN <<FALSE, stateFile>>
    ELSE IF get_state = None THEN <<FALSE, stateFile>>
    ELSE IF get_state.kind = "json_bad_time" THEN <<FALSE, stateFile>>
    ELSE IF IsStale(now - get_state.start_time) THEN <<FALSE, clear_state>>
    ELSE <<TRUE, stateFile>>

(******************** do_sign_in_with_result *******************************)
(* One pass of the for loop: the attendance call of attempt `attempt` has  *)
(* answered `res`; markOk says whether EndSignRecord.mark_signed, if it is *)
(* reached, returns (TRUE) or raises (FALSE).                              *)
(* status "run" = asyncio.sleep(retry_delay) and continue.                 *)
MutRetryWrites(attempt, n) ==
    IF attempt < n
    THEN [status |-> "run", attempt |-> attempt + 1, wrote |-> FALSE, slept |-> TRUE]
    ELSE [status |-> "fail", attempt |-> attempt, wrote |-> TRUE, slept |-> FALSE]

MutRetryRaises(attempt, n) ==
    IF attempt < n
    THEN [status |-> "run", attempt |-> attempt + 1, wrote |-> FALSE, slept |-> TRUE]
    ELSE [status |-> "exception", attempt |-> attempt, wrote |-> FALSE, slept |-> FALSE]

MutRetryOnceMore(attempt, n) ==
    IF attempt <= n
    THEN [status |-> "run", attempt |-> attempt + 1, wrote |-> FALSE, slept |-> TRUE]
    ELSE [status |-> "fail", attempt |-> attempt, wrote |-> FALSE, slept |-> FALSE]

Retry(attempt, n) ==
    IF attempt < n
    THEN [status |-> "run", attempt |-> attempt + 1, wrote |-> FALSE, slept |-> TRUE]
    ELSE [status |-> "fail", attempt |-> attempt, wrote |-> FALSE, slept |-> FALSE]

Attempt(attempt, n, res, markOk) ==
    IF res.kind = "Raise" THEN Retry(attempt, n)
    ELSE IF res.kind = "None" THEN Retry(attempt, n)
    ELSE IF res.code = CODE_OK THEN
        IF markOk
        THEN [status |-> "success", attempt |-> attempt, wrote |-> TRUE, slept |-> FALSE]
        ELSE Retry(attempt, n)
    ELSE IF res.code = CODE_SIGNED THEN
        IF markOk
        THEN [status |-> "signed", attempt |-> attempt, wrote |-> TRUE, slept |-> FALSE]
        ELSE Retry(attempt, n)
    ELSE Retry(attempt, n)

(********************** the stand-alone call (SpecRetry) *******************)
(* rt: max_retries n, the loop variable, the status returned ("run" while  *)
(* the call is in progress), the attendance calls and sleeps made so far,  *)
(* the answers received, and whether a Sign-in Record was written.         *)
RtIdle == [n |-> 0, attempt |-> 0, status |-> "none", calls |-> 0, sleeps |-> 0,
           log |-> <<>>, wrote |-> FALSE]

RtStart(n) == [n |-> n, attempt |-> 1, status |-> "run", calls |-> 0, sleeps |-> 0,
               log |-> <<>>, wrote |-> FALSE]

(* user.uid of the stand-alone call *)
RtUid == 1

RetryCall ==
    /\ rt.status = "run"
    /\ \E res \in Responses, markOk \in BOOLEAN :
         LET a == Attempt(rt.attempt, rt.n, res, markOk) IN
            /\ rt' = [rt EXCEPT !.attempt = a.attempt,
                          !.status = a.status,
                          !.calls = @ + 1,
                          !.sleeps = @ + (IF a.slept THEN 1 ELSE 0),
                          !.log = Append(@, [res |-> res, markOk |-> markOk]),
                          !.wrote = a.wrote]
            /\ signRecord' = IF a.wrote THEN signRecord \cup {RtUid} ELSE signRecord
    /\ UNCHANGED <<stateFile, now, concurrent_num, users, h, out>>
    /\ UNCHANGED ApiVars
    /\ UNCHANGED AuxVars

(***************************** end_auto_sign *******************************)
NoMsg == [kind |-> "none", total |-> 0, success |-> 0, signed |-> 0, fail |-> 0,
          skipped |-> 0]

(* the two early returns and the summary of end_auto_sign *)
NoUsersMsg == [NoMsg EXCEPT !.kind = "no_users"]

AllSignedMsg(n) == [NoMsg EXCEPT !.kind = "all_signed", !.total = n]

SummaryMsg(r) == [kind |-> "summary", total |-> Len(r.sign_users), success |-> r.success,
                  signed |-> r.signed, fail |-> r.fail, skipped |-> r.skipped]

IdleH == [pc |-> "idle", entry |-> "none", cand |-> <<>>, k |-> 0, sign_users |-> <<>>,
          skipped |-> 0, i |-> 0, tasks |-> <<>>, success |-> 0, signed |-> 0,
          fail |-> 0, startSigned |-> {}, msg |-> NoMsg]

(* the coroutine has ended: a command or cron slot is free again, the      *)
(* one-shot startup job never runs again                                   *)
Ended(id) == IF id = ResumeH THEN [IdleH EXCEPT !.pc = "finished"] ELSE IdleH

Out(type, id, uid) == [type |-> type, h |-> id, uid |-> uid]
NoOut == Out("none", 0, 0)

(* candidate_users: cookie set, cookie_status not invalid, switch on *)
MutEligibleIgnoresSwitch(u) == u.cookie /\ u.cookie_status # "invalid"
Eligible(u) == u.cookie /\ u.cookie_status # "invalid" /\ u.bbs_sign_switch = "on"

Candidates == SelectSeq([x \in UserIds |-> x], LAMBDA x : Eligible(users[x]))

(* get_sign_record(uid): a record of today with sign_status == 1 exists *)
MutNeverSigned(uid) == FALSE
AlreadySigned(uid) == uid \in signRecord

Min(a, b) == IF a < b THEN a ELSE b

(* batch = sign_users[i:i + concurrent_num]; one coroutine per entry *)
MutBatchOneMore(r, i) ==
    SubSeq(r.sign_users, i + 1, Min(i + concurrent_num + 1, Len(r.sign_users)))
Batch(r, i) == SubSeq(r.sign_users, i + 1, Min(i + concurrent_num, Len(r.sign_users)))

NewTasks(r, i) == [j \in 1..Len(Batch(r, i)) |-> [attempt |-> 1, status |-> "run"]]

(* asyncio.gather returns when every task has returned or raised *)
MutSettledAny(tasks) == TRUE
Settled(tasks) == \A j \in 1..Len(tasks) : tasks[j].status # "run"

MutCountDropsSigned(tasks, S) ==
    Cardinality({j \in 1..Len(tasks) : tasks[j].status \in S \ {"signed"}})
Count(tasks, S) == Cardinality({j \in 1..Len(tasks) : tasks[j].status \in S})

(* end_auto_sign is entered: the first await is EndUser.get_all_data().    *)
(* startSigned remembers the Sign-in Records of that moment.               *)
EnterRun(entry) == [IdleH EXCEPT !.pc = "fetch", !.entry = entry, !.startSigned = signRecord]

(* end_auto_sign returned msg to its caller, which runs to its next await: *)
(* sign_all and end_scheduled_sign go on to push msg, the manual branch of *)
(* check_and_resume_end_signing clears the state and ends.                 *)
Returned(id, r, msg) ==
    IF r.entry = "resume_manual"
    THEN [hrec |-> Ended(id), file |-> clear_state, out |-> NoOut]
    ELSE [hrec |-> [IdleH EXCEPT !.pc = "push", !.entry = r.entry, !.msg = msg],
          file |-> stateFile, out |-> NoOut]

(* an exception left end_auto_sign: the finally blocks of sign_all and     *)
(* end_scheduled_sign, and the except block of the resume job, clear_state *)
MutRaisedKeepsState(id, r) ==
    [hrec |-> Ended(id), file |-> stateFile, out |-> Out("raised", id, 0)]
Raised(id, r) == [hrec |-> Ended(id), file |-> clear_state, out |-> Out("raised", id, 0)]

(* a step inside end_auto_sign that neither returns nor raises *)
Goes(r) == [hrec |-> r, file |-> stateFile, out |-> NoOut]

RunPCs == {"fetch", "dedupe", "gather", "pause", "report"}
InRun(id) == h[id].pc \in RunPCs
Active(id) == h[id].pc \in RunPCs \cup {"notice", "sleep", "push"}

(******************************* triggers **********************************)
Frame ==
    UNCHANGED <<now, concurrent_num, users, rt, row, calls, net, issued, lastRefresh,
                merge, sig, store>>

(* sign_all, up to its first await *)
SignAll ==
    /\ IF is_signing
       THEN /\ out' = Out("busy", 0, 0)
            /\ UNCHANGED <<stateFile, h>>
       ELSE \E m \in ManualH :
            /\ h[m].pc = "idle"
            /\ stateFile' = set_state("manual")
            /\ h' = [h EXCEPT ![m] = [IdleH EXCEPT !.pc = "notice", !.entry = "sign_all"]]
            /\ out' = NoOut
    /\ UNCHANGED signRecord
    /\ Frame

(* sign_all: bot.send("...start") returned, or raised before the try *)
NoticeSent(m) ==
    /\ h[m].pc = "notice"
    /\ \E ok \in BOOLEAN :
         IF ok
         THEN /\ h' = [h EXCEPT ![m] = EnterRun("sign_all")]
              /\ out' = Out("notice", m, 0)
         ELSE /\ h' = [h EXCEPT ![m] = Ended(m)]
              /\ out' = Out("raised", m, 0)
    /\ UNCHANGED <<stateFile, signRecord>>
    /\ Frame

(* the cron job end_sign_0 starts end_scheduled_sign (the scheduler runs   *)
(* one instance of a job at a time)                                        *)
CronFire ==
    /\ h[CronH].pc = "idle"
    /\ stateFile' = set_state("auto")
    /\ h' = [h EXCEPT ![CronH] = EnterRun("scheduled")]
    /\ out' = NoOut
    /\ UNCHANGED signRecord
    /\ Frame

(* check_and_resume_end_signing, up to asyncio.sleep(5) *)
ResumeCheck ==
    /\ h[ResumeH].pc = "pending"
    /\ LET sr == should_resume IN
       IF ~sr[1] \/ get_state = None
       THEN /\ stateFile' = sr[2]
            /\ h' = [h EXCEPT ![ResumeH] = Ended(ResumeH)]
            /\ out' = IF sr[2] # stateFile THEN Out("stale", ResumeH, 0) ELSE NoOut
       ELSE /\ stateFile' = sr[2]
            /\ h' = [h EXCEPT ![ResumeH] =
                       [IdleH EXCEPT !.pc = "sleep",
                                     !.entry = IF get_state.type = "auto"
                                               THEN "resume_auto" ELSE "resume_manual"]]
            /\ out' = Out("resume", ResumeH, 0)
    /\ UNCHANGED signRecord
    /\ Frame

(* The check-in command of one chat user: end_sign_handler finds the row   *)
(* of the bound uid (it wants a cookie, nothing else) and do_sign_in sends *)
(* one attendance request; the answer becomes the reply. Nothing is        *)
(* written to the EndSignRecord table.                                     *)
do_sign_in(res) ==
    IF res.kind # "dict" THEN "cmd_fail"
    ELSE IF res.code = CODE_OK THEN "cmd_success"
    ELSE IF res.code = CODE_SIGNED THEN "cmd_signed"
    ELSE "cmd_fail"

SignCommand(u) ==
    /\ u \in UserIds
    /\ users[u].cookie
    /\ \E res \in Responses \ {[kind |-> "Raise", code |-> -1]} :
         out' = Out(do_sign_in(res), 0, users[u].uid)
    /\ UNCHANGED <<stateFile, signRecord, h>>
    /\ Frame

(************************* the steps of a run ******************************)
(* EndUser.get_all_data() answered; the filter; the first get_sign_record  *)
FetchReturn(id) ==
    /\ h[id].pc = "fetch"
    /\ \E ok \in BOOLEAN :
         LET r == h[id]
             res == IF ~ok THEN Raised(id, r)
                    ELSE IF Candidates = <<>> THEN Returned(id, r, NoUsersMsg)
                    ELSE Goes([r EXCEPT !.pc = "dedupe", !.cand = Candidates, !.k = 1])
         IN /\ h' = [h EXCEPT ![id] = res.hrec]
            /\ stateFile' = res.file
            /\ out' = res.out
    /\ UNCHANGED signRecord
    /\ Frame

(* get_sign_record(cand[k].uid) answered; after the last one the batches   *)
(* start: gather runs every coroutine of the first batch to its first await *)
DedupeStep(id) ==
    /\ h[id].pc = "dedupe"
    /\ \E ok \in BOOLEAN :
         LET r == h[id]
             u == r.cand[r.k]
             r1 == IF AlreadySigned(users[u].uid)
                   THEN [r EXCEPT !.skipped = @ + 1]
                   ELSE [r EXCEPT !.sign_users = Append(@, u)]
             res == IF ~ok THEN Raised(id, r)
                    ELSE IF r.k < Len(r.cand)
                    THEN Goes([r1 EXCEPT !.k = @ + 1])
                    ELSE IF r1.sign_users = <<>>
                    THEN Returned(id, r, AllSignedMsg(Len(r.cand)))
                    ELSE Goes([r1 EXCEPT !.pc = "gather", !.i = 0,
                                         !.tasks = NewTasks(r1, 0)])
         IN /\ h' = [h EXCEPT ![id] = res.hrec]
            /\ stateFile' = res.file
            /\ out' = res.out
    /\ UNCHANGED signRecord
    /\ Frame

(* do_sign_in_with_result of the j-th account of the batch: one attendance *)
(* call is made and answered, mark_signed writes the record                *)
TaskStep(id, j) ==
    /\ h[id].pc = "gather"
    /\ j \in 1..Len(h[id].tasks)
    /\ h[id].tasks[j].status = "run"
    /\ \E res \in Responses, markOk \in BOOLEAN :
         LET r == h[id]
             u == r.sign_users[r.i + j]
             a == Attempt(r.tasks[j].attempt, DefaultMaxRetries, res, markOk)
         IN /\ h' = [h EXCEPT ![id].tasks[j] = [attempt |-> a.attempt, status |-> a.status]]
            /\ signRecord' = IF a.wrote THEN signRecord \cup {users[u].uid} ELSE signRecord
            /\ out' = Out("attendance", id, users[u].uid)
    /\ UNCHANGED stateFile
    /\ Frame

(* asyncio.gather returned: the results are counted; either the pause      *)
(* before the next batch, or the summary and the reports                   *)
GatherReturn(id) ==
    /\ h[id].pc = "gather"
    /\ Settled(h[id].tasks)
    /\ \E reports \in BOOLEAN :
         LET r == h[id]
             r1 == [r EXCEPT !.success = @ + Count(r.tasks, {"success"}),
                             !.signed = @ + Count(r.tasks, {"signed"}),
                             !.fail = @ + Count(r.tasks, {"fail", "exception"}),
                             !.tasks = <<>>]
             res == IF r.i + concurrent_num < Len(r.sign_users)
                    THEN Goes([r1 EXCEPT !.pc = "pause"])
                    ELSE IF reports
                    THEN Goes([r1 EXCEPT !.pc = "report"])
                    ELSE Returned(id, r1, SummaryMsg(r1))
         IN /\ h' = [h EXCEPT ![id] = res.hrec]
            /\ stateFile' = res.file
            /\ out' = res.out
    /\ UNCHANGED signRecord
    /\ Frame

(* asyncio.sleep returned.                                                  *)
(* In check_and_resume_end_signing (sleep(5)): end_scheduled_sign is       *)
(* entered, or set_state("manual") and end_auto_sign.                      *)
(* In end_auto_sign (the pause between two batches): the next batch starts. *)
SleepDone(id) ==
    /\ h[id].pc \in {"sleep", "pause"}
    /\ LET r == h[id]
           ni == r.i + concurrent_num
       IN IF r.pc = "sleep"
          THEN /\ stateFile' = set_state(IF r.entry = "resume_auto" THEN "auto"
                                         ELSE "manual")
               /\ h' = [h EXCEPT ![id] = EnterRun(r.entry)]
          ELSE /\ stateFile' = stateFile
               /\ h' = [h EXCEPT ![id] = [r EXCEPT !.pc = "gather", !.i = ni,
                                                   !.tasks = NewTasks(r, ni)]]
    /\ out' = NoOut
    /\ UNCHANGED signRecord
    /\ Frame

(* build_sign_report_msgs and send_sign_report are through, or raised *)
ReportDone(id) ==
    /\ h[id].pc = "report"
    /\ \E ok \in BOOLEAN :
         LET r == h[id]
             res == IF ok THEN Returned(id, r, SummaryMsg(r)) ELSE Raised(id, r)
         IN /\ h' = [h EXCEPT ![id] = res.hrec]
            /\ stateFile' = res.file
            /\ out' = res.out
    /\ UNCHANGED signRecord
    /\ Frame

(* the caller pushed msg (sign_all: bot.send; end_scheduled_sign: to the   *)
(* subscribers, if there are any), or the push raised; the finally block   *)
(* clears the state either way                                             *)
PushDone(id) ==
    /\ h[id].pc = "push"
    /\ \E res \in {"sent", "no_subscribers", "raised"} :
         /\ res = "no_subscribers" => h[id].entry # "sign_all"
         /\ out' = IF res = "sent" THEN Out("summary", id, 0)
                   ELSE IF res = "raised" THEN Out("raised", id, 0)
                   ELSE NoOut
    /\ h' = [h EXCEPT ![id] = Ended(id)]
    /\ stateFile' = clear_state
    /\ UNCHANGED signRecord
    /\ Frame

(***************************** the signed client ***************************)
(* EndApi.request and EndApi.refresh_token (utils/api/requests.py) for one *)
(* credential, with the entry points that hand the credential to them.     *)
(* The token cache is the EndUser row of the credential: token and         *)
(* last_cred_request_time (0 stands for None, both are falsy).             *)
(* the EndUser row of the uid of the chat user; cookie is the credential   *)
(* (0: none), token the signing token (0: none), token_cred the credential *)
(* whose refresh answer the token is (0: of none)                          *)
NoRow == [exists |-> FALSE, cookie |-> 0, token |-> 0, token_cred |-> 0, last |-> 0,
          cookie_status |-> ""]

(* the row check_cred inserts: cookie and token as given, no refresh time  *)
BoundRow(cred, token) ==
    [exists |-> TRUE, cookie |-> cred, token |-> token, token_cred |-> 0, last |-> 0,
     cookie_status |-> ""]

(* the token of the OAuth login, which check_cred gets as used_token *)
OAuthToken == -1

CallIds == 1..NCalls

Creds == 1..NCreds

(* who hands the credential to the client: check_cred while binding a cred *)
(* or after a login by token, a task of a batch run, the check-in command, *)
(* get_self_end_ck, the random public credential                           *)
Kinds == {"bind", "login", "batch", "sign_cmd", "self_ck", "random"}

HttpStatuses == {200, 400, 403, 500}

(* the body of a response: JSON with a code, or anything else *)
BodyKinds == {"json", "malformed"}

IdleCall == [pc |-> "idle", kind |-> "none", cred |-> 0, phase |-> "none",
             force |-> FALSE, current_time |-> 0, held |-> 0, requests |-> 0,
             user_token |-> 0, user_token_cred |-> 0, exists |-> FALSE]

NoResult == [kind |-> "none", code |-> 0]

NoNet == [type |-> "none", call |-> 0, kind |-> "none", cred |-> 0, how |-> "none",
          age |-> 0, token |-> 0, token_cred |-> 0, cookie_status |-> "",
          force |-> FALSE, http |-> 0, body |-> "none", code |-> 0,
          result |-> NoResult, requests |-> 0]

Ev(type, c) ==
    [NoNet EXCEPT !.type = type, !.call = c, !.kind = calls[c].kind,
                  !.cred = calls[c].cred]

(* select(cls).where(cls.cookie == cred): the row, or None *)
select_data_by_cred(cred) == IF row.exists /\ row.cookie = cred THEN row ELSE NoRow

(* refresh_token, step 2: is a refresh needed for the row select_data_by_cred *)
(* returned?                                                               *)
MutNeedRefreshLate(user, current_time) ==
    IF user.exists /\ user.token # 0
    THEN IF user.last # 0 THEN current_time - user.last > TOKEN_TTL + 1 ELSE TRUE
    ELSE TRUE
need_refresh(user, current_time) ==
    IF user.exists /\ user.token # 0
    THEN IF user.last # 0 THEN current_time - user.last > TOKEN_TTL ELSE TRUE
    ELSE TRUE

(* the entry point reads the EndUser table and decides whether it hands    *)
(* the credential of the row on: the batch filter and get_all_valid_users  *)
(* drop rows marked invalid, get_self_end_ck returns None for them,        *)
(* end_sign_handler only wants a row with a cookie; check_cred has the     *)
(* cred from the user                                                      *)
HandsOver(kind, user, cred) ==
    CASE kind \in {"bind", "login"} -> TRUE
      [] kind = "sign_cmd" -> user.exists /\ user.cookie = cred
      [] OTHER -> user.exists /\ user.cookie = cred /\ user.cookie_status # "invalid"

(* the times at which something happens: the first seconds, and one token  *)
(* lifetime after them                                                     *)
Times == {1, 2, 1 + TOKEN_TTL, 2 + TOKEN_TTL, 3 + TOKEN_TTL}

Tick ==
    /\ \E t \in Times : t > now /\ now' = t
    /\ UNCHANGED ApiVars
    /\ UNCHANGED SchedVars
    /\ UNCHANGED AuxVars

(* An entry point has read the table and calls the client with the         *)
(* credential: get_self_end_ck calls refresh_token to validate it, the     *)
(* others call request. The next await is select_data_by_cred.             *)
ApiStart(c, kind, cred) ==
    /\ calls[c].pc = "idle"
    /\ HandsOver(kind, row, cred)
    /\ calls' = [calls EXCEPT ![c] =
                   [IdleCall EXCEPT !.pc = "select", !.kind = kind, !.cred = cred,
                                    !.phase = IF kind = "self_ck" THEN "validate"
                                              ELSE "request"]]
    /\ net' = [Ev("start", c) EXCEPT !.kind = kind, !.cred = cred,
                                     !.cookie_status = row.cookie_status]
    /\ UNCHANGED <<now, row, issued, lastRefresh>>
    /\ UNCHANGED SchedVars
    /\ UNCHANGED AuxVars

(* refresh_token returned token to its caller.                             *)
(* get_self_end_ck: the credential is good, its caller goes on to request. *)
(* request: do_request signs with the token and sends the one request.     *)
GotToken(c, how, age, token, token_cred) ==
    IF calls[c].phase = "validate"
    THEN [call |-> [calls[c] EXCEPT !.pc = "select", !.phase = "request", !.held = 0],
          net |-> [Ev("validated", c) EXCEPT !.how = how, !.age = age, !.token = token,
                                             !.token_cred = token_cred]]
    ELSE [call |-> [calls[c] EXCEPT !.pc = "sent", !.held = 0, !.requests = @ + 1],
          net |-> [Ev("signed", c) EXCEPT !.how = how, !.age = age, !.token = token,
                                          !.token_cred = token_cred,
                                          !.cookie_status = row.cookie_status]]

(* refresh_token returned None: request returns None, get_self_end_ck      *)
(* marks the row of the uid invalid.                                       *)
NoToken(c) ==
    /\ row' = IF calls[c].phase = "validate" /\ row.exists
              THEN [row EXCEPT !.cookie_status = "invalid"]
              ELSE row
    /\ calls' = [calls EXCEPT ![c] = IdleCall]
    /\ net' = Ev("no_token", c)

(* select_data_by_cred answered (or raised: the exception leaves           *)
(* refresh_token and request). The cached token is returned, or the GET to *)
(* the refresh endpoint is sent.                                           *)
ApiSelect(c) ==
    /\ calls[c].pc = "select"
    /\ \E ok \in BOOLEAN :
         LET user == select_data_by_cred(calls[c].cred) IN
         IF ~ok
         THEN /\ calls' = [calls EXCEPT ![c] = IdleCall]
              /\ net' = Ev("raised", c)
         ELSE IF ~need_refresh(user, now) /\ ~calls[c].force
         THEN LET g == GotToken(c, "cache", now - user.last, user.token,
                                user.token_cred) IN
              /\ calls' = [calls EXCEPT ![c] = g.call]
              /\ net' = g.net
         ELSE /\ calls' = [calls EXCEPT ![c].pc = "refresh", ![c].current_time = now]
              /\ net' = [Ev("refresh", c) EXCEPT !.force = calls[c].force]
    /\ UNCHANGED <<now, row, issued, lastRefresh>>
    /\ UNCHANGED SchedVars
    /\ UNCHANGED AuxVars

(* The refresh endpoint answered. code OK: the endpoint has issued a token *)
(* and update_data_by_xx is awaited. Anything else, or an exception:       *)
(* refresh_token returns None.                                             *)
ApiRefreshReturn(c) ==
    /\ calls[c].pc = "refresh"
    /\ \E ok \in BOOLEAN :
         IF ok
         THEN /\ issued < MaxIssued
              /\ issued' = issued + 1
              /\ calls' = [calls EXCEPT ![c].pc = "store", ![c].held = issued + 1]
              /\ net' = [Ev("issued", c) EXCEPT !.token = issued + 1,
                                                !.token_cred = calls[c].cred]
              /\ UNCHANGED row
         ELSE /\ NoToken(c)
              /\ UNCHANGED issued
    /\ UNCHANGED <<now, lastRefresh>>
    /\ UNCHANGED SchedVars
    /\ UNCHANGED AuxVars

(* update_data_by_xx({"cookie": cred}, token, last_cred_request_time) has  *)
(* written to the rows of the credential (to none if there is none) and    *)
(* the token is returned; or it raised and refresh_token returns None.     *)
ApiRefreshStore(c) ==
    /\ calls[c].pc = "store"
    /\ \E ok \in BOOLEAN :
         IF ok
         THEN /\ lastRefresh' = calls[c].current_time
              /\ row' = IF row.exists /\ row.cookie = calls[c].cred
                        THEN [row EXCEPT !.token = calls[c].held,
                                         !.token_cred = calls[c].cred,
                                         !.last = calls[c].current_time]
                        ELSE row
              /\ LET g == GotToken(c, "refreshed", 0, calls[c].held, calls[c].cred) IN
                 /\ calls' = [calls EXCEPT ![c] = g.call]
                 /\ net' = g.net
         ELSE /\ NoToken(c)
              /\ UNCHANGED lastRefresh
    /\ UNCHANGED <<now, issued>>
    /\ UNCHANGED SchedVars
    /\ UNCHANGED AuxVars

(* do_request from the response on: read_response gives the JSON body, or  *)
(* a dict with RespCode.REQUEST_ERROR and the text for any other body;     *)
(* status 400 and 403 return it, any other status but 200 returns None,    *)
(* 200 returns it. An exception of the transport (http 0) returns None.    *)
MutDoRequestAnyStatus(http, body, code) ==
    IF http = 0 THEN [kind |-> "None", code |-> -1]
    ELSE [kind |-> "dict", code |-> IF body = "json" THEN code ELSE REQUEST_ERROR]
do_request(http, body, code) ==
    LET res == [kind |-> "dict", code |-> IF body = "json" THEN code ELSE REQUEST_ERROR]
    IN IF http = 0 THEN [kind |-> "None", code |-> -1]
       ELSE IF http \in {400, 403} THEN res
       ELSE IF http # 200 THEN [kind |-> "None", code |-> -1]
       ELSE res

(* The signed request was answered, or the transport raised: request       *)
(* returns the result of do_request to its caller. check_cred goes on to   *)
(* the EndUser table after a good answer of get_binding.                   *)
ApiResponse(c) ==
    /\ calls[c].pc = "sent"
    /\ \E http \in HttpStatuses \cup {0}, body \in BodyKinds,
          code \in {CODE_OK, TOKEN_INVALID, CODE_SIGNED} :
         /\ (http \in {0, 500} \/ body = "malformed") => code = CODE_OK
         /\ http = 0 => body = "json"
         /\ LET res == do_request(http, body, code) IN
            /\ net' = [Ev("returned", c) EXCEPT !.http = http, !.body = body,
                                                !.code = code, !.result = res,
                                                !.requests = calls[c].requests]
            /\ calls' = [calls EXCEPT ![c] =
                           IF calls[c].kind \in {"bind", "login"}
                                /\ res.kind = "dict" /\ res.code = CODE_OK
                           THEN [@ EXCEPT !.pc = "bind_select"]
                           ELSE IdleCall]
    /\ UNCHANGED <<now, row, issued, lastRefresh>>
    /\ UNCHANGED SchedVars
    /\ UNCHANGED AuxVars

(* check_cred: select_end_user answered, twice: user is the row of the uid *)
(* (or a new EndUser), user.token becomes used_token after a login, exists *)
(* says whether there is a row. An exception ends the handler.             *)
BindSelect(c) ==
    /\ calls[c].pc = "bind_select"
    /\ \E ok \in BOOLEAN :
         IF ok
         THEN /\ calls' = [calls EXCEPT
                    ![c].pc = "bind_write",
                    ![c].exists = row.exists,
                    ![c].user_token = IF calls[c].kind = "login" THEN OAuthToken
                                      ELSE row.token,
                    ![c].user_token_cred = IF calls[c].kind = "login" THEN 0
                                           ELSE row.token_cred]
              /\ net' = Ev("bind_select", c)
         ELSE /\ calls' = [calls EXCEPT ![c] = IdleCall]
              /\ net' = Ev("raised", c)
    /\ UNCHANGED <<now, row, issued, lastRefresh>>
    /\ UNCHANGED SchedVars
    /\ UNCHANGED AuxVars

(* check_cred: insert_data has added the row, or update_data_by_uid has    *)
(* written cookie and token (and the profile fields) to the row of the     *)
(* uid: cookie_status and last_cred_request_time are not among the values. *)
(* A row added while one of the uid is there already is a second row,      *)
(* which no select returns first.                                          *)
BindWrite(c) ==
    /\ calls[c].pc = "bind_write"
    /\ \E ok \in BOOLEAN :
         IF ok
         THEN /\ row' = IF ~calls[c].exists
                        THEN IF row.exists THEN row
                             ELSE BoundRow(calls[c].cred, calls[c].user_token)
                        ELSE [row EXCEPT !.cookie = calls[c].cred,
                                         !.token = calls[c].user_token,
                                         !.token_cred = calls[c].user_token_cred]
              /\ net' = [Ev("bound", c) EXCEPT !.cookie_status = row'.cookie_status]
         ELSE /\ net' = Ev("raised", c)
              /\ UNCHANGED row
    /\ calls' = [calls EXCEPT ![c] = IdleCall]
    /\ UNCHANGED <<now, issued, lastRefresh>>
    /\ UNCHANGED SchedVars
    /\ UNCHANGED AuxVars

(***************************** _merge_records ******************************)
(* end_gacha/get_gachalogs.py. A record is its seqId; 0 is a record whose  *)
(* seqId is missing or empty. Lists are sequences.                         *)
Range(s) == {s[x] : x \in 1..Len(s)}

(* list.sort(reverse): a sorts before b *)
Before(a, b, reverse) == IF reverse THEN a > b ELSE a < b

(* x goes behind the elements that do not sort after it *)
RECURSIVE InsertSorted(_, _, _)
InsertSorted(x, s, reverse) ==
    IF s = <<>> THEN <<x>>
    ELSE IF Before(x, s[1], reverse) THEN <<x>> \o s
    ELSE <<s[1]>> \o InsertSorted(x, Tail(s), reverse)

RECURSIVE Sorted(_, _)
Sorted(s, reverse) ==
    IF s = <<>> THEN <<>>
    ELSE InsertSorted(s[Len(s)], Sorted(SubSeq(s, 1, Len(s) - 1), reverse), reverse)

merge_records(old_list, new_list) ==
    LET existing_ids == Range(old_list) \ {0}
        unique_new == SelectSeq(new_list, LAMBDA r : r # 0 /\ r \notin existing_ids)
    IN IF unique_new = <<>> THEN old_list
       ELSE Sorted(old_list \o unique_new, TRUE)

NoMerge == [pc |-> "none", old_list |-> <<>>, new_list |-> <<>>, merged |-> <<>>]

(* get_new_gachalog: merged = _merge_records(old_list, records) *)
MergeCall ==
    /\ merge.pc = "call"
    /\ merge' = [merge EXCEPT !.pc = "done",
                              !.merged = merge_records(merge.old_list, merge.new_list)]
    /\ UNCHANGED <<sig, store>>
    /\ UNCHANGED SchedVars
    /\ UNCHANGED ApiVars
    /\ UNCHANGED now

(************************ EndApi.request: what is signed *******************)
(* params is the dict in insertion order (its keys), body is None, an      *)
(* empty dict or a dict with content. A string is the sequence of its      *)
(* parts: the query string is the keys in the order they are joined.       *)
Bodies == {"None", "empty", "dict"}

(* body_string = json.dumps(body) if body else "" *)
body_string(body) == IF body = "dict" THEN <<"json">> ELSE <<>>

(* query_string, the signed payload, the URL that is requested and the     *)
(* data that is posted                                                     *)
BuildRequest(method, params, body) ==
    LET query_string == IF params # <<>> THEN Sorted(params, FALSE) ELSE <<>>
    IN [signed_query |-> query_string,
        signed_body |-> IF method = "GET" THEN <<>> ELSE body_string(body),
        url_query |-> IF params # <<>> /\ method = "GET" THEN query_string ELSE <<>>,
        sent_body |-> IF method = "GET" \/ body = "None" THEN <<>> ELSE body_string(body)]

NoSig == [pc |-> "none", method |-> "", params |-> <<>>, body |-> "None",
          signed_query |-> <<>>, signed_body |-> <<>>, url_query |-> <<>>,
          sent_body |-> <<>>]

(* EndApi.request from the payload strings to the session.get / post *)
SendRequest ==
    /\ sig.pc = "call"
    /\ LET b == BuildRequest(sig.method, sig.params, sig.body) IN
       sig' = [sig EXCEPT !.pc = "sent",
                          !.signed_query = b.signed_query,
                          !.signed_body = b.signed_body,
                          !.url_query = b.url_query,
                          !.sent_body = b.sent_body]
    /\ UNCHANGED <<merge, store>>
    /\ UNCHANGED SchedVars
    /\ UNCHANGED ApiVars
    /\ UNCHANGED now

(*************************** the EndSignRecord table ************************)
(* utils/database/models.py, EndSignRecord, with the date of each row: a   *)
(* row is [uid, date], sign_status 1; dates are day numbers. The table has *)
(* no unique index on (uid, date). Each with_session call is a session of  *)
(* its own: what it adds is in the table when the session is committed.    *)
MarkIds == 1..NMarks

IdleMark == [pc |-> "idle", uid |-> 0, date |-> 0, existing |-> FALSE]

NoStore == [records |-> <<>>, today |-> 0, op |-> "none",
            marks |-> [m \in MarkIds |-> IdleMark]]

(* the rows select(cls).where(uid == uid, date == date) finds *)
RecordsOf(uid, date) ==
    SelectSeq(store.records, LAMBDA r : r.uid = uid /\ r.date = date)

(* mark_signed(uid) is called: date = today, the select is sent *)
MarkStart(m, uid) ==
    /\ store.marks[m].pc = "idle"
    /\ store' = [store EXCEPT !.marks[m] = [pc |-> "select", uid |-> uid,
                                            date |-> store.today, existing |-> FALSE],
                              !.op = "mark"]
    /\ UNCHANGED <<merge, sig>>
    /\ UNCHANGED SchedVars
    /\ UNCHANGED ApiVars
    /\ UNCHANGED now

(* the select answered: existing = result.scalars().first(); the row is    *)
(* updated or a new one is added to the session; the commit is awaited     *)
MarkSelect(m) ==
    /\ store.marks[m].pc = "select"
    /\ \E ok \in BOOLEAN :
         store' = IF ok
                  THEN [store EXCEPT !.marks[m].pc = "commit",
                                     !.marks[m].existing =
                                         RecordsOf(store.marks[m].uid,
                                                   store.marks[m].date) # <<>>,
                                     !.op = "mark"]
                  ELSE [store EXCEPT !.marks[m] = IdleMark, !.op = "raised"]
    /\ UNCHANGED <<merge, sig>>
    /\ UNCHANGED SchedVars
    /\ UNCHANGED ApiVars
    /\ UNCHANGED now

(* the commit went through (or raised and nothing is written) *)
MarkCommit(m) ==
    /\ store.marks[m].pc = "commit"
    /\ \E ok \in BOOLEAN :
         LET k == store.marks[m] IN
         store' = IF ok
                  THEN [store EXCEPT !.records =
                                         IF k.existing THEN @
                                         ELSE Append(@, [uid |-> k.uid, date |-> k.date]),
                                     !.marks[m] = IdleMark,
                                     !.op = "marked"]
                  ELSE [store EXCEPT !.marks[m] = IdleMark, !.op = "raised"]
    /\ UNCHANGED <<merge, sig>>
    /\ UNCHANGED SchedVars
    /\ UNCHANGED ApiVars
    /\ UNCHANGED now

(* clear_sign_records(before_date): delete where date <= before_date *)
clear_sign_records(records, before_date) ==
    SelectSeq(records, LAMBDA r : ~(r.date <= before_date))

(* the cron job clear_end_sign_record: two_days_ago = today - 2 days *)
ClearEndSignRecord ==
    /\ store' = [store EXCEPT !.records = clear_sign_records(@, store.today - TWO_DAYS),
                              !.op = "clear"]
    /\ UNCHANGED <<merge, sig>>
    /\ UNCHANGED SchedVars
    /\ UNCHANGED ApiVars
    /\ UNCHANGED now

(* midnight *)
NextDay ==
    /\ store.today < MaxDay
    /\ store' = [store EXCEPT !.today = @ + 1, !.op = "day"]
    /\ UNCHANGED <<merge, sig>>
    /\ UNCHANGED SchedVars
    /\ UNCHANGED ApiVars
    /\ UNCHANGED now

AuxIdle == merge = NoMerge /\ sig = NoSig /\ store = NoStore

(****************************** specification ******************************)
Ages == {DAY - 1, DAY, DAY + 1}

(* EndUser rows: bound with the switch on or off, marked invalid, or left  *)
(* without a cred                                                          *)
Profiles(uids) ==
    {[uid |-> u, cookie |-> TRUE, cookie_status |-> st, bbs_sign_switch |-> sw] :
        u \in uids, st \in {"", "invalid"}, sw \in {"on", "off"}}
    \cup {[uid |-> u, cookie |-> FALSE, cookie_status |-> "", bbs_sign_switch |-> "on"] :
              u \in uids}

LeftoverFiles ==
    {NoFile, Corrupt, BadTime}
        \cup {[kind |-> "json", type |-> t, start_time |-> -a] : t \in SignTypes, a \in Ages}

StartH == [id \in Handlers |-> IF id = ResumeH THEN [IdleH EXCEPT !.pc = "pending"] ELSE IdleH]

(* The process has just started: a crash may have left a state file and    *)
(* Sign-in Records of today behind.                                        *)
Init ==
    /\ now = 0
    /\ stateFile \in LeftoverFiles
    /\ concurrent_num = DefaultConcurrentNum
    /\ users \in [1..NUsers -> Profiles({1})]
    /\ signRecord \in SUBSET {1}
    /\ h = StartH
    /\ out = NoOut
    /\ rt = RtIdle
    /\ row = NoRow
    /\ calls = [c \in CallIds |-> IdleCall]
    /\ net = NoNet
    /\ issued = 0
    /\ lastRefresh = 0
    /\ AuxIdle

RunStep ==
    \/ \E id \in Handlers : FetchReturn(id)
    \/ \E id \in Handlers : DedupeStep(id)
    \/ \E id \in Handlers, j \in 1..MaxConcurrent : TaskStep(id, j)
    \/ \E id \in Handlers : GatherReturn(id)
    \/ \E id \in Handlers : SleepDone(id)
    \/ \E id \in Handlers : ReportDone(id)
    \/ \E id \in Handlers : PushDone(id)

Next ==
    \/ SignAll
    \/ \E m \in ManualH : NoticeSent(m)
    \/ CronFire
    \/ ResumeCheck
    \/ RunStep

Spec == Init /\ [][Next]_vars

(* one step of the coroutine in slot id: the event loop resumes it when    *)
(* the operation it awaits has completed                                   *)
HandlerStep(id) ==
    \/ NoticeSent(id)
    \/ FetchReturn(id)
    \/ DedupeStep(id)
    \/ \E j \in 1..MaxConcurrent : TaskStep(id, j)
    \/ GatherReturn(id)
    \/ SleepDone(id)
    \/ ReportDone(id)
    \/ PushDone(id)

(* One run at a time over a larger store: no leftover state file, the cron *)
(* job not registered (SchedSignin is off by default), sign_all only.      *)
InitRun ==
    /\ now = 0
    /\ stateFile = NoFile
    /\ concurrent_num \in 1..MaxConcurrent
    /\ users \in [1..NUsersRun -> Profiles(1..NUids)]
    /\ signRecord \in SUBSET (1..NUids)
    /\ h = [StartH EXCEPT ![ResumeH] = Ended(ResumeH)]
    /\ out = NoOut
    /\ rt = RtIdle
    /\ row = NoRow
    /\ calls = [c \in CallIds |-> IdleCall]
    /\ net = NoNet
    /\ issued = 0
    /\ lastRefresh = 0
    /\ AuxIdle

NextRun ==
    \/ SignAll
    \/ \E m \in ManualH : NoticeSent(m)
    \/ RunStep

SpecRun == InitRun /\ [][NextRun]_vars

(* One do_sign_in_with_result call with max_retries = n *)
InitRetry ==
    /\ now = 0
    /\ stateFile = NoFile
    /\ concurrent_num = DefaultConcurrentNum
    /\ users = <<>>
    /\ signRecord \in SUBSET {RtUid}
    /\ h = [StartH EXCEPT ![ResumeH] = Ended(ResumeH)]
    /\ out = NoOut
    /\ \E n \in 1..MaxN : rt = RtStart(n)
    /\ row = NoRow
    /\ calls = [c \in CallIds |-> IdleCall]
    /\ net = NoNet
    /\ issued = 0
    /\ lastRefresh = 0
    /\ AuxIdle

NextRetry == RetryCall

SpecRetry == InitRetry /\ [][NextRetry]_vars

(* The signed client on its own: one credential, which is bound by command *)
(* when the uid has no row; calls run side by side                         *)
InitApi ==
    /\ now = 1
    /\ stateFile = NoFile
    /\ concurrent_num = DefaultConcurrentNum
    /\ users = <<>>
    /\ signRecord = {}
    /\ h = [StartH EXCEPT ![ResumeH] = Ended(ResumeH)]
    /\ out = NoOut
    /\ rt = RtIdle
    /\ row \in {NoRow, BoundRow(1, 0)}
    /\ calls = [c \in CallIds |-> IdleCall]
    /\ net = NoNet
    /\ issued = 0
    /\ lastRefresh = 0
    /\ AuxIdle

ApiCall(c, kind) ==
    /\ kind = "bind" => ~row.exists
    /\ ApiStart(c, kind, 1)

NextApi ==
    \/ Tick
    \/ \E c \in CallIds, kind \in Kinds \ {"login"} : ApiCall(c, kind)
    \/ \E c \in CallIds : ApiSelect(c)
    \/ \E c \in CallIds : ApiRefreshReturn(c)
    \/ \E c \in CallIds : ApiRefreshStore(c)
    \/ \E c \in CallIds : ApiResponse(c)
    \/ \E c \in CallIds : BindSelect(c)
    \/ \E c \in CallIds : BindWrite(c)

SpecApi == InitApi /\ [][NextApi]_vars

(* Binding again and logging in: the chat user sends one command after the *)
(* other, with the same credential or a new one                            *)
InitBind == InitApi

NextBind ==
    \/ Tick
    \/ \E kind \in Kinds, cred \in Creds : ApiStart(1, kind, cred)
    \/ ApiSelect(1)
    \/ ApiRefreshReturn(1)
    \/ ApiRefreshStore(1)
    \/ ApiResponse(1)
    \/ BindSelect(1)
    \/ BindWrite(1)

SpecBind == InitBind /\ [][NextBind]_vars

(* the sequences over S of length at most n *)
SeqsUpTo(S, n) == UNION {[1..k -> S] : k \in 0..n}

NoDuplicates(s) == \A x, y \in 1..Len(s) : x # y => s[x] # s[y]

(* everything outside the call under study is at rest *)
Rest ==
    /\ now = 0
    /\ stateFile = NoFile
    /\ concurrent_num = DefaultConcurrentNum
    /\ users = <<>>
    /\ signRecord = {}
    /\ h = [StartH EXCEPT ![ResumeH] = Ended(ResumeH)]
    /\ out = NoOut
    /\ rt = RtIdle
    /\ row = NoRow
    /\ calls = [c \in CallIds |-> IdleCall]
    /\ net = NoNet
    /\ issued = 0
    /\ lastRefresh = 0

(* One _merge_records call: a stored list without duplicate seqIds, any    *)
(* fetched list                                                            *)
InitMerge ==
    /\ Rest
    /\ sig = NoSig
    /\ store = NoStore
    /\ \E o \in SeqsUpTo(1..MaxSeqId, MaxOld), n \in SeqsUpTo(0..MaxSeqId, MaxNew) :
         /\ NoDuplicates(o)
         /\ merge = [pc |-> "call", old_list |-> o, new_list |-> n, merged |-> <<>>]

NextMerge == MergeCall

SpecMerge == InitMerge /\ [][NextMerge]_vars

(* One EndApi.request call: method, params and body *)
InitSign ==
    /\ Rest
    /\ merge = NoMerge
    /\ store = NoStore
    /\ \E m \in {"GET", "POST"}, p \in SeqsUpTo(1..MaxKeys, MaxKeys), b \in Bodies :
         /\ NoDuplicates(p)
         /\ sig = [NoSig EXCEPT !.pc = "call", !.method = m, !.params = p, !.body = b]

NextSign == SendRequest

SpecSign == InitSign /\ [][NextSign]_vars

(* The record table on its own: rows of the last days (one per uid and     *)
(* date) are there when the process starts                                 *)
InitStore ==
    /\ Rest
    /\ merge = NoMerge
    /\ sig = NoSig
    /\ \E rs \in SeqsUpTo([uid : {1}, date : 0..FirstDay], 2) :
         /\ NoDuplicates(rs)
         /\ store = [NoStore EXCEPT !.records = rs, !.today = FirstDay]

NextStore ==
    \/ \E m \in MarkIds : MarkStart(m, 1)
    \/ \E m \in MarkIds : MarkSelect(m)
    \/ \E m \in MarkIds : MarkCommit(m)
    \/ ClearEndSignRecord
    \/ NextDay

SpecStore == InitStore /\ [][NextStore]_vars

(* The check-in command next to manual runs: no leftover state, the cron   *)
(* job not registered                                                      *)
InitCmd ==
    /\ now = 0
    /\ stateFile = NoFile
    /\ concurrent_num = DefaultConcurrentNum
    /\ users \in [1..NUsersCmd -> Profiles({1})]
    /\ signRecord \in SUBSET {1}
    /\ h = [StartH EXCEPT ![ResumeH] = Ended(ResumeH)]
    /\ out = NoOut
    /\ rt = RtIdle
    /\ row = NoRow
    /\ calls = [c \in CallIds |-> IdleCall]
    /\ net = NoNet
    /\ issued = 0
    /\ lastRefresh = 0
    /\ AuxIdle

NextCmd ==
    \/ \E u \in 1..NUsersCmd : SignCommand(u)
    \/ NextRun

SpecCmd == InitCmd /\ [][NextCmd]_vars

(******************************** claims ***********************************)
RunsInProgress == {id \in Handlers : InRun(id)}

(* C1: at any moment at most one execution of end_auto_sign is in progress, *)
(* whatever triggers occur (sign_all, the cron job, the startup resume job). *)
C1_AtMostOneRun == Cardinality(RunsInProgress) <= 1

(* a sign_all command takes its start branch in this step *)
SignAllStarts == \E m \in ManualH : h[m].pc = "idle" /\ h'[m].pc = "notice"

(* C2: sign_all invoked while the state file exists answers "already       *)
(* running" and launches nothing; a sign_all that does start has found no  *)
(* state file and leaves one behind, so a command arriving right after it  *)
(* is rejected; end_auto_sign is entered by a command only through that    *)
(* start branch.                                                           *)
C2_ManualRejectedWhileFileExists ==
    [][ /\ (SignAll /\ stateFile.kind # "absent")
            => (out'.type = "busy" /\ UNCHANGED <<h, stateFile, signRecord>>)
        /\ SignAllStarts
            => (stateFile.kind = "absent" /\ stateFile'.kind = "json"
                /\ stateFile'.type = "manual")
        /\ \A m \in ManualH :
             (h[m].pc # "fetch" /\ h'[m].pc = "fetch") => h[m].pc = "notice"
      ]_vars

(* C2 witness: a command was just answered "already running" while a run   *)
(* is in progress                                                          *)
C2_Witness == out.type = "busy" /\ RunsInProgress # {}

(* C3: whenever a run is in progress the state file exists *)
C3_FileExistsWhileRunning == RunsInProgress # {} => stateFile.kind # "absent"

(* the coroutine that called end_auto_sign ends in this step *)
HandlerEnds(id) ==
    h[id].pc \in RunPCs \cup {"push"} /\ h'[id].pc \in {"idle", "finished"}

(* accounts of sign_users whose coroutine has been started *)
Launched(r) ==
    IF r.pc = "pause" THEN Min(r.i + concurrent_num, Len(r.sign_users))
    ELSE r.i + Len(r.tasks)

RECURSIVE AttemptsLeft(_)
AttemptsLeft(tasks) ==
    IF tasks = <<>> THEN 0
    ELSE (IF Head(tasks).status = "run"
          THEN DefaultMaxRetries - Head(tasks).attempt + 1 ELSE 0)
         + AttemptsLeft(Tail(tasks))

(* an upper bound of the steps a run still has to take before end_auto_sign *)
(* has returned or raised                                                  *)
StepsLeft(r) ==
    LET perUser == DefaultMaxRetries + 2
        rest == Len(r.sign_users) - Launched(r)
    IN CASE r.pc = "fetch" -> 5 + (perUser + 1) * Len(users)
         [] r.pc = "dedupe" -> 4 + (Len(r.cand) - r.k) + perUser * Len(r.cand)
         [] r.pc = "gather" -> 3 + AttemptsLeft(r.tasks) + perUser * rest
         [] r.pc = "pause" -> 2 + perUser * rest
         [] r.pc = "report" -> 2
         [] OTHER -> 0

ResumeChecks == h[ResumeH].pc = "pending" /\ h'[ResumeH].pc # "pending"

Elapsed == now - stateFile.start_time

EntryOf(type) == IF type = "auto" THEN "resume_auto" ELSE "resume_manual"

(* C5: at the resume check a readable record less than 24 h old leads to a *)
(* run of the recorded kind (the job goes to its sleep with that kind and  *)
(* its only next step enters end_auto_sign on the matching path), and the  *)
(* state record is present while the resumed run executes.                 *)
C5_ResumeRunsWithRecordPresent ==
    /\ [][(ResumeChecks /\ stateFile.kind = "json" /\ Elapsed < DAY)
            => (h'[ResumeH].pc = "sleep" /\ h'[ResumeH].entry = EntryOf(stateFile.type))]_vars
    /\ [][(h[ResumeH].pc = "sleep" /\ h'[ResumeH] # h[ResumeH])
            => (h'[ResumeH].pc = "fetch" /\ h'[ResumeH].entry = h[ResumeH].entry
                /\ stateFile'.kind = "json"
                /\ EntryOf(stateFile'.type) = h[ResumeH].entry)]_vars
    /\ [](InRun(ResumeH) => stateFile.kind # "absent")

(* C6 as claimed: a record 24 h old or older (exactly 24 h included) is     *)
(* deleted at the resume check and no run is started from it.              *)
C6_StaleAtDayOrMore ==
    [][(ResumeChecks /\ stateFile.kind = "json" /\ Elapsed >= DAY)
        => (stateFile'.kind = "absent" /\ h'[ResumeH].pc = "finished")]_vars

(* C6 amended: a record more than 24 h old is deleted at the resume check  *)
(* and no run is started from it; a record exactly 24 h old (or younger)   *)
(* is kept and resumed.                                                    *)
C6_StaleAfterDay ==
    [][(ResumeChecks /\ stateFile.kind = "json")
        => IF Elapsed > DAY
           THEN stateFile'.kind = "absent" /\ h'[ResumeH].pc = "finished"
           ELSE stateFile' = stateFile /\ h'[ResumeH].pc = "sleep"]_vars

(* C6 witness: the resume check has just deleted a stale record and ended  *)
C6_Witness ==
    out.type = "stale" /\ h[ResumeH].pc = "finished" /\ stateFile.kind = "absent"

UidAt(r, x) == users[r.sign_users[x]].uid

(* C7: an account whose uid has a signed Sign-in Record of today when a    *)
(* run starts gets no check-in request from that run and is counted as     *)
(* skipped; and a task that returned success or signed has written the     *)
(* record, so every run that starts later finds it.                        *)
C7_SignedAtStartIsSkipped ==
    \A id \in Handlers :
        LET r == h[id] IN
        /\ (out.type = "attendance" /\ out.h = id) => out.uid \notin r.startSigned
        /\ r.pc \in {"gather", "pause", "report"} =>
              /\ \A x \in 1..Len(r.sign_users) : UidAt(r, x) \notin r.startSigned
              /\ r.skipped = Len(r.cand) - Len(r.sign_users)
              /\ r.skipped >= Cardinality({x \in 1..Len(r.cand) :
                                              users[r.cand[x]].uid \in r.startSigned})
        /\ \A j \in 1..Len(r.tasks) :
              r.tasks[j].status \in {"success", "signed"} => UidAt(r, r.i + j) \in signRecord

(* C7 witness: the run resumed after a restart found every candidate       *)
(* signed today and returned without sending anything                      *)
C7_Witness ==
    /\ h[ResumeH].pc = "push"
    /\ h[ResumeH].msg.kind = "all_signed"
    /\ h[ResumeH].msg.total > 0
    /\ signRecord # {}

(* C8: within one run each game UID is the subject of at most one          *)
(* per-account check-in task, whatever the EndUser table holds.            *)
C8_OneTaskPerUid ==
    \A id \in Handlers :
        LET r == h[id] IN
        r.pc \in {"gather", "pause"} =>
            \A x, y \in 1..Launched(r) : x # y => UidAt(r, x) # UidAt(r, y)

(* the stand-alone call has returned *)
RtDone == rt.status \in {"success", "signed", "fail"}

(* the attempt got no response, an exception, or a code other than 0 and   *)
(* 10001 (an exception of mark_signed is an exception of the attempt)      *)
AttemptFailed(e) ==
    \/ e.res.kind # "dict"
    \/ e.res.code \notin {CODE_OK, CODE_SIGNED}
    \/ ~e.markOk

(* C9: with max_retries = n >= 1 and every attempt failing, the call makes *)
(* exactly n attendance calls, never more than n, sleeps n - 1 times (not  *)
(* after the last attempt) and returns fail.                               *)
C9_ExactlyNAttempts ==
    /\ rt.calls <= rt.n
    /\ rt.sleeps <= rt.calls
    /\ (RtDone /\ \A x \in 1..Len(rt.log) : AttemptFailed(rt.log[x]))
          => (rt.status = "fail" /\ rt.calls = rt.n /\ rt.sleeps = rt.n - 1)

(* C9 witness: three attempts, all failed, the call has returned *)
C9_Witness ==
    /\ RtDone
    /\ rt.n = DefaultMaxRetries
    /\ rt.calls = DefaultMaxRetries
    /\ \A x \in 1..Len(rt.log) : AttemptFailed(rt.log[x])

(* the attempts that answered code 0 or 10001 *)
Decisive == {x \in 1..Len(rt.log) :
                rt.log[x].res.kind = "dict" /\ rt.log[x].res.code \in {CODE_OK, CODE_SIGNED}}

FirstDecisive == CHOOSE x \in Decisive : \A y \in Decisive : x <= y

(* C10: the result is the one of the first attempt that answered 0 or      *)
(* 10001 (success for 0, signed for 10001), fail if there is none within   *)
(* the budget, and no attendance call follows that attempt.                *)
C10_FirstDecisiveAttemptDecides ==
    /\ Decisive # {} => FirstDecisive = Len(rt.log)
    /\ RtDone =>
          IF Decisive = {} THEN rt.status = "fail"
          ELSE rt.status = (IF rt.log[FirstDecisive].res.code = CODE_OK
                            THEN "success" ELSE "signed")

(* C11: do_sign_in_with_result writes today's Sign-in Record of its uid if *)
(* and only if it returns success or signed: the store changes only in the *)
(* step that returns success or signed, the record is there when it has    *)
(* returned one of them, and a call that returns fail wrote nothing.       *)
C11_RecordWrittenIffSuccessOrSigned ==
    /\ [][signRecord' # signRecord => rt'.status \in {"success", "signed"}]_vars
    /\ [](rt.status = "run" => ~rt.wrote)
    /\ [](RtDone => (rt.wrote <=> rt.status \in {"success", "signed"}))
    /\ [](rt.status \in {"success", "signed"} => RtUid \in signRecord)

(* C11 witness: three attempts without an answer, the call returned fail   *)
(* and no record exists                                                    *)
C11_Witness ==
    /\ rt.status = "fail"
    /\ Len(rt.log) = DefaultMaxRetries
    /\ \A x \in 1..Len(rt.log) : rt.log[x].res.kind \in {"None", "Raise"}
    /\ ~rt.wrote
    /\ signRecord = {}

(* the accounts whose result the run has counted so far *)
Counted(r) == r.success + r.signed + r.fail

(* C12: the tasks of a batch exist only when every task of the batches     *)
(* before it has settled and been counted; the pause is entered from a     *)
(* batch whose tasks have all settled, only when another batch follows,    *)
(* and the next batch starts from the pause; after the last batch the run  *)
(* goes on without a pause.                                                *)
C12_BatchesInSequence ==
    /\ [](\A id \in Handlers :
            LET r == h[id] IN
            /\ r.pc = "gather" => Counted(r) = r.i
            /\ r.pc = "pause" =>
                  /\ r.tasks = <<>>
                  /\ Counted(r) = r.i + concurrent_num
                  /\ r.i + concurrent_num < Len(r.sign_users))
    /\ [][\A id \in Handlers :
            /\ (h'[id].pc = "pause" /\ h[id].pc # "pause") =>
                  (h[id].pc = "gather"
                     /\ \A j \in 1..Len(h[id].tasks) : h[id].tasks[j].status # "run")
            /\ (h'[id].pc = "gather" /\ h[id].pc = "gather") => h'[id].i = h[id].i
            /\ (h'[id].pc = "gather" /\ h[id].pc # "gather") =>
                  \/ h[id].pc = "dedupe" /\ h'[id].i = 0
                  \/ h[id].pc = "pause" /\ h'[id].i = h[id].i + concurrent_num
            /\ (h[id].pc = "gather" /\ h'[id].pc \notin {"gather", "pause"}) =>
                  /\ h[id].i + concurrent_num >= Len(h[id].sign_users)
                  /\ \A j \in 1..Len(h[id].tasks) : h[id].tasks[j].status # "run"]_vars

(* C12 witness: the second batch is running after the pause *)
C12_Witness ==
    \E id \in Handlers :
        /\ h[id].pc = "gather"
        /\ h[id].i = concurrent_num
        /\ Counted(h[id]) = concurrent_num
        /\ \E j \in 1..Len(h[id].tasks) : h[id].tasks[j].status = "run"

(* C13: at most concurrent_num tasks are in flight; the batches are the    *)
(* consecutive slices of sign_users of exactly concurrent_num accounts,    *)
(* the last one possibly smaller, so every account is in exactly one.      *)
C13_BatchesOfConcurrentNum ==
    \A id \in Handlers :
        LET r == h[id]
            left == Len(r.sign_users) - r.i
        IN r.pc = "gather" =>
              /\ Len(r.tasks) <= concurrent_num
              /\ r.i % concurrent_num = 0
              /\ left >= 1
              /\ Len(r.tasks) = (IF left >= concurrent_num THEN concurrent_num ELSE left)

(* C13 witness: three accounts, concurrent_num = 2: the final batch of one *)
C13_Witness ==
    \E id \in Handlers :
        /\ concurrent_num = 2
        /\ h[id].pc = "gather"
        /\ Len(h[id].sign_users) = 3
        /\ h[id].i = 2
        /\ Len(h[id].tasks) = 1

(* the counters of a run, also after end_auto_sign returned its summary *)
Tally(r) ==
    IF r.pc = "push"
    THEN [success |-> r.msg.success, signed |-> r.msg.signed, fail |-> r.msg.fail]
    ELSE [success |-> r.success, signed |-> r.signed, fail |-> r.fail]

(* C14: when a batch is counted every task adds one to exactly one counter *)
(* according to its result (anything but success and signed, an exception  *)
(* included, to fail), and at the end of the run success + signed + fail   *)
(* is the number of accounts attempted, candidates minus skipped.          *)
C14_CountersAddUp ==
    /\ [](\A id \in Handlers :
            LET r == h[id] IN
            /\ r.pc = "report" =>
                  /\ Counted(r) = Len(r.sign_users)
                  /\ Len(r.sign_users) = Len(r.cand) - r.skipped
            /\ (r.pc = "push" /\ r.msg.kind = "summary") =>
                  r.msg.success + r.msg.signed + r.msg.fail = r.msg.total)
    /\ [][\A id \in Handlers :
            (h[id].pc = "gather" /\ h'[id].pc \in {"pause", "report", "push"}) =>
                LET t == h[id].tasks
                    N(S) == Cardinality({j \in 1..Len(t) : t[j].status \in S})
                    old == Tally(h[id])
                    new == Tally(h'[id])
                IN /\ new.success = old.success + N({"success"})
                   /\ new.signed = old.signed + N({"signed"})
                   /\ new.fail = old.fail + (Len(t) - N({"success", "signed"}))]_vars

(* C14 witness: three accounts attempted, all succeeded *)
C14_Witness ==
    \E id \in Handlers :
        /\ h[id].pc = "push"
        /\ h[id].msg.kind = "summary"
        /\ h[id].msg.total = 3
        /\ h[id].msg.success = 3
        /\ h[id].msg.signed = 0
        /\ h[id].msg.fail = 0

(* C15: whatever the check-in call and the record store do, a task ends    *)
(* with status success, signed or fail and never in an exception; a step   *)
(* of the batch loop never ends the run in an exception, and the loop is   *)
(* left only after the last account of sign_users got its task.            *)
C15_NoExceptionEscapes ==
    /\ [](\A id \in Handlers : \A j \in 1..Len(h[id].tasks) :
            h[id].tasks[j].status \in {"run", "success", "signed", "fail"})
    /\ [][\A id \in Handlers :
            /\ (h[id].pc \in {"gather", "pause"} /\ h'[id] # h[id]) =>
                  (h'[id].pc \in {"gather", "pause", "report", "push"}
                     /\ out'.type # "raised")
            /\ (h[id].pc = "gather" /\ h'[id].pc \in {"report", "push"}) =>
                  h[id].i + Len(h[id].tasks) = Len(h[id].sign_users)]_vars

(* C15 witness: an account of the first batch failed and the next batch is *)
(* being attempted                                                         *)
C15_Witness ==
    \E id \in Handlers :
        /\ h[id].pc = "gather"
        /\ h[id].i > 0
        /\ h[id].fail > 0
        /\ out.type = "attendance"

(* C16: every row a run takes as candidate, and every row it signs, has a  *)
(* cookie_status other than invalid and bbs_sign_switch "on"; a check-in   *)
(* request goes out only for the uid of such a row of the run.             *)
C16_OnlyEligibleRowsSigned ==
    \A id \in Handlers :
        LET r == h[id]
            Ok(u) == users[u].cookie_status # "invalid" /\ users[u].bbs_sign_switch = "on"
        IN /\ \A x \in 1..Len(r.cand) : Ok(r.cand[x])
           /\ \A x \in 1..Len(r.sign_users) : Ok(r.sign_users[x])
           /\ (out.type = "attendance" /\ out.h = id) =>
                 \E x \in 1..Len(r.sign_users) : UidAt(r, x) = out.uid

(* C16 witness: the resumed run has sent a check-in request *)
C16_Witness ==
    /\ out.type = "attendance"
    /\ out.h = ResumeH
    /\ h[ResumeH].pc = "gather"

(* refresh_token of call c decides in this step (select_data_by_cred has   *)
(* answered)                                                               *)
RefreshDecides(c) ==
    /\ calls[c].pc = "select"
    /\ calls'[c] # calls[c]
    /\ net'.type # "raised"

(* C17: a non-forced refresh_token call made within 180 s after the latest *)
(* successful refresh for the credential returns the token without a call  *)
(* to the refresh endpoint, and a call made more than 180 s after it sends *)
(* one refresh request; for every caller, check_cred while binding         *)
(* included.                                                               *)
C17_NoRefreshWithinTTL ==
    [][\A c \in CallIds :
        (RefreshDecides(c) /\ ~calls[c].force /\ lastRefresh # 0) =>
            IF now - lastRefresh <= TOKEN_TTL
            THEN net'.type \in {"signed", "validated"} /\ net'.how = "cache"
            ELSE net'.type = "refresh" /\ calls'[c].pc = "refresh"]_vars

(* C18: a request is signed with a token that was read from the cache with *)
(* a recorded refresh time at most 180 s old, or that the refresh endpoint *)
(* had just returned to this call.                                         *)
C18_SignedWithFreshToken ==
    net.type = "signed" =>
        \/ /\ net.how = "cache"
           /\ net.token # 0
           /\ net.token = row.token
           /\ row.last # 0
           /\ net.age >= 0
           /\ net.age <= TOKEN_TTL
        \/ /\ net.how = "refreshed"
           /\ net.token \in 1..issued

(* C18 witness: a request signed with a cached token exactly 180 s old *)
C18_Witness ==
    net.type = "signed" /\ net.how = "cache" /\ net.age = TOKEN_TTL

(* C19: no signed request goes out with the credential of a row that is    *)
(* marked invalid at that moment, through whatever entry point.            *)
C19_NoSignedRequestForInvalid ==
    net.type = "signed" => net.cookie_status # "invalid"

(* C20: when a signed request is answered with HTTP 400 or 403 and the     *)
(* token-invalid code, the client goes on to one forced refresh of the     *)
(* token of that credential (and does not send the request again).         *)
C20_TokenInvalidForcesRefresh ==
    [][\A c \in CallIds :
        (calls[c].pc = "sent" /\ calls'[c] # calls[c]
            /\ net'.http \in {400, 403} /\ net'.code = TOKEN_INVALID) =>
                (calls'[c].pc = "refresh" /\ calls'[c].force)]_vars

(* C22: the query string that is signed is the query string of the URL     *)
(* that is requested, and for POST the body string that is signed is the   *)
(* body that is posted, also when a POST has both params and a body.       *)
C22_SignedIsTransmitted ==
    sig.pc = "sent" =>
        /\ sig.signed_query = sig.url_query
        /\ sig.method = "POST" => sig.signed_body = sig.sent_body

(* C30: the list _merge_records returns has no two records with the same   *)
(* seqId, for a stored list without duplicates and any fetched list.       *)
C30_MergedHasNoDuplicateSeqId ==
    merge.pc = "done" =>
        \A x, y \in 1..Len(merge.merged) :
            (x # y /\ merge.merged[x] # 0) => merge.merged[x] # merge.merged[y]

(* C23: whatever the interleaving of mark_signed calls, the table holds at *)
(* most one record per (uid, date).                                        *)
C23_OneRecordPerUidAndDate ==
    \A x, y \in 1..Len(store.records) :
        x # y => store.records[x] # store.records[y]

(* C24: the maintenance pass deletes exactly the records dated more than   *)
(* 2 days before today: the records of today, of yesterday and of the day  *)
(* exactly 2 days ago are kept, every older one is gone.                   *)
C24_ClearsOlderThanTwoDays ==
    [][(store'.op = "clear" /\ store' # store) =>
          store'.records =
              SelectSeq(store.records, LAMBDA r : r.date >= store.today - 2)]_vars

(* C25: once the startup resume check is through and no handler is         *)
(* running, the state file does not exist, so the next sign_all command is *)
(* accepted; whatever file the last process left behind.                   *)
C25_NoLeftoverLockOut ==
    (h[ResumeH].pc = "finished" /\ \A id \in Handlers : ~Active(id)) =>
        stateFile.kind = "absent"

(* C29: when the check-in command has been answered with code 0 or 10001,  *)
(* today's Sign-in Record of the uid exists (so that a later batch run     *)
(* skips the uid).                                                         *)
C29_CommandRecordsSigned ==
    out.type \in {"cmd_success", "cmd_signed"} => out.uid \in signRecord

C26_RebindMakesUsable ==
    net.type = "bound" => net.cookie_status # "invalid"

(* C27: a token refresh_token returns from the cache is the answer of the  *)
(* refresh endpoint to a refresh for the credential of the call.           *)
C27_CachedTokenIsOfCredential ==
    (net.type \in {"signed", "validated"} /\ net.how = "cache") =>
        (net.token > 0 /\ net.token_cred = net.cred)

(* C28: the token in the cache is never replaced by one the refresh        *)
(* endpoint issued earlier.                                                *)
C28_CacheKeepsLatestIssued ==
    [][(row.token > 0 /\ row'.token > 0) => row'.token >= row.token]_vars

====
